---- MODULE Spec2Model ----
(***************************************************************************)
(* ETL Log Analyzer: the pattern-driven line extractor (LogParser), the    *)
(* aggregation engine (LogAnalyzer) and the load/refresh machinery of the  *)
(* desktop application (ETLLogAnalyzerApp), modelled from                  *)
(* src/etl_log_analyzer.py.                                                *)
(*                                                                         *)
(* Text is a TLA+ string; Ch(s, i) is its i-th character.  Optional values *)
(* (Python None) are sequences of length at most one: None is <<>>, a      *)
(* present value v is <<v>>.  A float is held in fixed point, as a whole   *)
(* number of units of 1/SCALE (see float).                                       *)
(***************************************************************************)
EXTENDS Integers, Sequences, FiniteSets, TLC

VARIABLES
    p_src,        \* the source handed to parse_log_file
    p_out,        \* what the call produced (None until it has run)
    calls,        \* the invocations of the core running side by side
    a_src,        \* the source of an ingestion followed by aggregation
    a_added,      \* the number of lines appended to it
    a_df,         \* the DataFrame parse_log_file returned for it (None before)
    a_out,        \* what analyze produced for that DataFrame (None before)
    current_df,          \* ETLLogAnalyzerApp.current_df
    current_analysis,    \* ETLLogAnalyzerApp.current_analysis
    current_filepath,    \* ETLLogAnalyzerApp.current_filepath
    status_bar,          \* the text of the status bar
    messagebox,          \* the dialog shown last (None before the first)
    callback_exception,  \* the exception a Tk callback raised last (None before)
    summary_text,        \* the job table of the report shown (None before the first)
    threads,             \* the worker threads started, in the order of their start
    after_queue,         \* the callbacks root.after(0, ...) has queued, oldest first
    h_attempts           \* (history) for each worker, what was held at its start,
                         \* whether it ran alone, and how it ended

pvars == <<p_src, p_out, calls>>
avars == <<a_src, a_added, a_df, a_out>>
uivars == <<status_bar, messagebox, callback_exception, summary_text>>
appvars == <<current_df, current_analysis, current_filepath, uivars, threads, after_queue,
             h_attempts>>
vars == <<pvars, avars, appvars>>

-----------------------------------------------------------------------------
(* Small helpers *)

None == <<>>
Some(v) == <<v>>

\* the outcome of a call: the value returned or the exception raised
Ok(v) == [returned |-> Some(v), raised |-> None]
Raise(type, msg) == [returned |-> None, raised |-> Some([type |-> type, msg |-> msg])]

Min2(a, b) == IF a <= b THEN a ELSE b
SetMin(S) == CHOOSE x \in S : \A y \in S : x <= y
SetMax(S) == CHOOSE x \in S : \A y \in S : x >= y

Ch(s, i) == SubSeq(s, i, i)

UPPER == "ABCDEFGHIJKLMNOPQRSTUVWXYZ"
LOWER == "abcdefghijklmnopqrstuvwxyz"
DIGITS == "0123456789"

UpperSet == {Ch(UPPER, k) : k \in 1..26}
LowerSet == {Ch(LOWER, k) : k \in 1..26}
DigitSet == {Ch(DIGITS, k) : k \in 1..10}
\* \s of the re module, restricted to the blanks that occur inside a line
SpaceSet == {" ", "\t"}
\* [A-Za-z0-9_\-]
NameSet == UpperSet \cup LowerSet \cup DigitSet \cup {"_", "-"}

ToLower == [c \in UpperSet |-> Ch(LOWER, CHOOSE k \in 1..26 : Ch(UPPER, k) = c)]
\* str.lower() on one character; re.IGNORECASE compares lower(c)
lower(c) == IF c \in UpperSet THEN ToLower[c] ELSE c
fold(c, ci) == IF ci THEN lower(c) ELSE c

-----------------------------------------------------------------------------
(* The subset of the re module the pattern catalog uses.  A pattern is a   *)
(* sequence of items; an item is an ordered alternation of literals        *)
(* (a|b|c; a literal is an alternation of one) or a character class with a *)
(* greedy quantifier {min,max} / + / *.  Under re.IGNORECASE (ci) both the *)
(* pattern's and the subject's characters are compared in lower case.      *)

Lit(w) == [kind |-> "alt", alts |-> <<w>>, set |-> {}, min |-> 1, max |-> 1, unbounded |-> FALSE]
Alt(ws) == [kind |-> "alt", alts |-> ws, set |-> {}, min |-> 1, max |-> 1, unbounded |-> FALSE]
Rep(S, lo, hi) == [kind |-> "cls", alts |-> <<>>, set |-> S, min |-> lo, max |-> hi, unbounded |-> FALSE]
Many(S, lo) == [kind |-> "cls", alts |-> <<>>, set |-> S, min |-> lo, max |-> lo, unbounded |-> TRUE]

\* the literal w occurs in s at position pos
LitAt(s, pos, w, ci) ==
    /\ pos + Len(w) - 1 <= Len(s)
    /\ \A k \in 1..Len(w) : fold(Ch(s, pos + k - 1), ci) = fold(Ch(w, k), ci)

\* number of consecutive characters of s from pos on that lie in class S
Run(s, pos, S, ci) ==
    SetMin({j \in pos..Len(s) : fold(Ch(s, j), ci) \notin S} \cup {Len(s) + 1}) - pos

\* Match items k.. of pat at pos, backtracking as re does (alternatives in
\* order, quantifiers longest first).  The result is the sequence of item
\* boundaries <<start of item k, ..., start of last item, end of match>>,
\* or <<>> when there is no match.
RECURSIVE re_match(_, _, _, _, _)
RECURSIVE try_alt(_, _, _, _, _, _)
RECURSIVE try_rep(_, _, _, _, _, _)
re_match(pat, ci, s, pos, k) ==
    IF k > Len(pat) THEN <<pos>>
    ELSE IF pat[k].kind = "alt" THEN try_alt(pat, ci, s, pos, k, 1)
    ELSE LET run == Run(s, pos, pat[k].set, ci)
         IN  try_rep(pat, ci, s, pos, k, IF pat[k].unbounded THEN run ELSE Min2(run, pat[k].max))

\* item k starts at pos and rest is the match of the items after it; when
\* there is none, the next choice for item k is tried
or_else(pos, rest, next) == IF rest # <<>> THEN <<pos>> \o rest ELSE next

\* alternatives a.. of item k, in order
try_alt(pat, ci, s, pos, k, a) ==
    IF a > Len(pat[k].alts) THEN <<>>
    ELSE or_else(pos,
                 IF LitAt(s, pos, pat[k].alts[a], ci)
                 THEN re_match(pat, ci, s, pos + Len(pat[k].alts[a]), k + 1) ELSE <<>>,
                 try_alt(pat, ci, s, pos, k, a + 1))

\* c repetitions of the class of item k, then fewer
try_rep(pat, ci, s, pos, k, c) ==
    IF c < pat[k].min THEN <<>>
    ELSE or_else(pos, re_match(pat, ci, s, pos + c, k + 1), try_rep(pat, ci, s, pos, k, c - 1))

\* of the matches found at positions 1..n, the leftmost
leftmost(found, n) ==
    LET starts == {i \in 1..n : found[i] # <<>>}
    IN  IF starts = {} THEN <<>> ELSE found[SetMin(starts)]

\* re.search: the match at the leftmost position that has one
re_search(pat, ci, s) ==
    leftmost([i \in 1..(Len(s) + 1) |-> re_match(pat, ci, s, i, 1)], Len(s) + 1)

\* match.group: the text matched by items i..j of the pattern
group(s, m, i, j) == SubSeq(s, m[i], m[j + 1] - 1)

\* str.strip(chars)
RECURSIVE lstrip(_, _)
lstrip(s, S) == IF Len(s) > 0 /\ Ch(s, 1) \in S THEN lstrip(SubSeq(s, 2, Len(s)), S) ELSE s
RECURSIVE rstrip(_, _)
rstrip(s, S) == IF Len(s) > 0 /\ Ch(s, Len(s)) \in S THEN rstrip(SubSeq(s, 1, Len(s) - 1), S) ELSE s
strip(s, S) == rstrip(lstrip(s, S), S)

\* str.lower()
RECURSIVE str_lower(_)
str_lower(s) == IF Len(s) = 0 THEN "" ELSE lower(Ch(s, 1)) \o str_lower(SubSeq(s, 2, Len(s)))

\* int(text) for a run of decimal digits
DigitVal(c) == CHOOSE d \in 0..9 : Ch(DIGITS, d + 1) = c
RECURSIVE int(_)
int(t) == IF Len(t) = 0 THEN 0 ELSE 10 * int(SubSeq(t, 1, Len(t) - 1)) + DigitVal(Ch(t, Len(t)))

\* float(text) for text of the shape \d+\.?\d*, in units of 1/SCALE: the integer
\* part followed by the first FracDigits decimals
SCALE == 100000
FracDigits == 5
RECURSIVE pad(_, _)
pad(t, n) == IF Len(t) >= n THEN SubSeq(t, 1, n) ELSE pad(t \o "0", n)
float(t) ==
    LET dots == {i \in 1..Len(t) : Ch(t, i) = "."}
    IN  IF dots = {} THEN int(t) * SCALE
        ELSE LET d == SetMin(dots)
             IN  int(SubSeq(t, 1, d - 1)) * SCALE + int(pad(SubSeq(t, d + 1, Len(t)), FracDigits))

-----------------------------------------------------------------------------
(* Floating point.  A float read from text is held as the decimal it was    *)
(* read from (see float); arithmetic on floats, that of the column means,   *)
(* is done as IEEE 754 binary64 does it, with round-to-nearest-even.  A     *)
(* binary64 number that is not negative is [exp, bits]: bits are the 53     *)
(* bits of its significand, most significant first, and the first of them   *)
(* weighs 2^exp; zero has all bits 0.                                       *)

Precision == 53

Zeros(k) == [i \in 1..k |-> 0]

f64_zero == [exp |-> 0, bits |-> Zeros(Precision)]

is_zero(x) == x.bits[1] = 0

\* the bits of a whole number, most significant first
RECURSIVE int_bits(_)
int_bits(v) == IF v = 0 THEN <<>> ELSE Append(int_bits(v \div 2), v % 2)

\* a significand plus one unit in its last place
increment(sig) ==
    LET zeros == {i \in 1..Len(sig) : sig[i] = 0}
    IN  IF zeros = {}
        THEN [carry |-> 1, bits |-> <<1>> \o Zeros(Len(sig) - 1)]
        ELSE [carry |-> 0,
              bits |-> SubSeq(sig, 1, SetMax(zeros) - 1) \o <<1>>
                           \o Zeros(Len(sig) - SetMax(zeros))]

\* sig, whose first bit is 1 and weighs 2^e, followed by further bits that
\* are not all 0 iff sticky, rounded to the nearest binary64, ties to even
round(sig, e, sticky) ==
    IF Len(sig) <= Precision
    THEN [exp |-> e, bits |-> sig \o Zeros(Precision - Len(sig))]
    ELSE LET kept == SubSeq(sig, 1, Precision)
             rest == sticky \/ \E i \in (Precision + 2)..Len(sig) : sig[i] = 1
             up == sig[Precision + 1] = 1 /\ (rest \/ kept[Precision] = 1)
             next == increment(kept)
         IN  IF up THEN [exp |-> e + next.carry, bits |-> next.bits]
             ELSE [exp |-> e, bits |-> kept]

\* the same for sig that may start with zeros
normalize(sig, e, sticky) ==
    LET ones == {i \in 1..Len(sig) : sig[i] = 1}
    IN  IF ones = {} THEN f64_zero
        ELSE round(SubSeq(sig, SetMin(ones), Len(sig)), e - (SetMin(ones) - 1), sticky)

\* the sum of positions lo..hi of two bit strings and the carry into
\* position hi, preceded by the carry out of position lo; the right half is
\* added first
RECURSIVE add_bits(_, _, _, _, _)
add_bits(a, b, lo, hi, carry) ==
    IF lo = hi
    THEN <<(a[lo] + b[lo] + carry) \div 2, (a[lo] + b[lo] + carry) % 2>>
    ELSE LET mid == (lo + hi) \div 2
             right == add_bits(a, b, mid + 1, hi, carry)
         IN  IF right[1] \in {0, 1}
             THEN add_bits(a, b, lo, mid, right[1]) \o Tail(right)
             ELSE <<>>

\* x + y
f64_add(x, y) ==
    IF is_zero(x) THEN y
    ELSE IF is_zero(y) THEN x
    ELSE LET hi == IF x.exp >= y.exp THEN x ELSE y
             lo == IF x.exp >= y.exp THEN y ELSE x
             shift == hi.exp - lo.exp
         IN  IF shift > Precision + 2 THEN hi
             ELSE normalize(add_bits(hi.bits \o Zeros(shift), Zeros(shift) \o lo.bits,
                                     1, Precision + shift, 0),
                            hi.exp + 1, FALSE)

\* the long division by d of positions lo..hi of sig, entered with
\* remainder r: quotient bits and remainder; the left half is divided first
RECURSIVE long_div(_, _, _, _, _)
long_div(sig, d, lo, hi, r) ==
    IF lo = hi
    THEN IF 2 * r + sig[lo] >= d THEN [q |-> <<1>>, r |-> 2 * r + sig[lo] - d]
         ELSE [q |-> <<0>>, r |-> 2 * r + sig[lo]]
    ELSE LET mid == (lo + hi) \div 2
             left == long_div(sig, d, lo, mid, r)
         IN  IF left.r >= 0
             THEN LET right == long_div(sig, d, mid + 1, hi, left.r)
                  IN  [q |-> left.q \o right.q, r |-> right.r]
             ELSE left

\* sig, whose first bit weighs 2^e, divided by the whole number d with
\* 0 < d < 2^Precision: the quotient is taken to 2 * Precision places
\* beyond sig, more than rounding needs
quotient(result, e) == normalize(result.q, e, result.r # 0)

divide(sig, e, d) ==
    quotient(long_div(sig \o Zeros(2 * Precision), d, 1, Len(sig) + 2 * Precision, 0), e)

\* x / d for a whole number d > 0
f64_div(x, d) == IF is_zero(x) THEN f64_zero ELSE divide(x.bits, x.exp, d)

\* the binary64 nearest to num / den, for whole num >= 0 and den > 0
binary64(num, den) ==
    IF num = 0 THEN f64_zero ELSE divide(int_bits(num), Len(int_bits(num)) - 1, den)

\* x < y
f64_lt(x, y) ==
    IF is_zero(y) THEN FALSE
    ELSE IF is_zero(x) THEN TRUE
    ELSE \/ x.exp < y.exp
         \/ /\ x.exp = y.exp
            /\ \E i \in 1..Precision :
                   /\ x.bits[i] < y.bits[i]
                   /\ \A j \in 1..(i - 1) : x.bits[j] = y.bits[j]

\* numpy's add.reduce over a float64 array (pairwise_sum): fewer than 8
\* values are added up from the left; from 8 on (and up to 128), eight
\* running sums take every eighth value, are added up in pairs, and the
\* values left over are added to the result from the left
RECURSIVE every(_, _, _, _, _)
every(values, acc, i, step, last) ==
    IF i > last THEN acc ELSE every(values, f64_add(acc, values[i]), i + step, step, last)

\* ((r1 + r2) + (r3 + r4)) + ((r5 + r6) + (r7 + r8))
RECURSIVE in_pairs(_, _, _)
in_pairs(r, lo, hi) ==
    IF lo = hi THEN r[lo]
    ELSE f64_add(in_pairs(r, lo, (lo + hi) \div 2), in_pairs(r, (lo + hi) \div 2 + 1, hi))

pairwise_sum(values) ==
    LET last == Len(values) - (Len(values) % 8)
        r == [j \in 1..8 |-> every(values, values[j], j + 8, 8, last)]
    IN  every(values,
              IF Len(values) < 8 THEN f64_zero ELSE in_pairs(r, 1, 8),
              IF Len(values) < 8 THEN 1 ELSE last + 1,
              1, Len(values))

-----------------------------------------------------------------------------
(* Inputs: the lines sources are made of.  A line is held without its      *)
(* terminating newline, which no pattern can use.                          *)

Corpus == {
    "2024-01-01 10:00:00 ERROR job: LoadCustomers Failed after 1500 ms",
    "",
    "hello world",
    "   padded line\t",
    "2024-01-01 10:05:00 INFO job: LoadOrders Completed, took 1500 ms",
    "Job Completed with ERROR",
    "WARN: Load Finished late",
    "WARNING: connection failed",
    "INFO: all steps Finished",
    "Information only",
    "SUCCESS",
    "severe: Out Of Memory exception",
    "elapsed: 5s then duration: 3s",
    "workflow: W before job: J",
    "elapsed: 2.5s",
    "Duration 90 seconds, 1200 rows processed",
    "took 250 milliseconds",
    "[2024-01-01T10:00:00] session: S-1 processed 20 records",
    "01/02/2024  10:00:00 500 row loaded",
    "jobs: none, took 5 minutes",
    "ERROR connection timeout, permission denied",
    "WARNING: network access slow",
    "job: A took 5 s",
    "job: B took 5000 ms",
    "FATAL: heap corrupt job: A elapsed: 61s",
    "2024-01-01 10:00:00 job: A duration: 60 s 10 rows loaded",
    "took 9 s",
    "elapsed: 7s",
    "01/02/2024  10:00:00 WARN job: B retrying",
    "job: C took 0.1 s",
    "job: C took 0 s",
    "took 1500 ms",
    "processed 20 records, 7 rows inserted",
    "01/02/2024 10:00:00 restart of 2024-01-01 09:00:00" }

-----------------------------------------------------------------------------
(* LogParser.PATTERNS.  Each pattern is its items and, for each capturing  *)
(* group, the range of items the group encloses.                           *)

Pat(items, groups) == [items |-> items, groups |-> groups]

PATTERNS == [
    timestamp |-> <<
        \* (\d{4}-\d{2}-\d{2}\s+\d{2}:\d{2}:\d{2})
        Pat(<<Rep(DigitSet, 4, 4), Lit("-"), Rep(DigitSet, 2, 2), Lit("-"), Rep(DigitSet, 2, 2),
              Many(SpaceSet, 1),
              Rep(DigitSet, 2, 2), Lit(":"), Rep(DigitSet, 2, 2), Lit(":"), Rep(DigitSet, 2, 2)>>,
            << <<1, 11>> >>),
        \* (\d{2}/\d{2}/\d{4}\s+\d{2}:\d{2}:\d{2})
        Pat(<<Rep(DigitSet, 2, 2), Lit("/"), Rep(DigitSet, 2, 2), Lit("/"), Rep(DigitSet, 4, 4),
              Many(SpaceSet, 1),
              Rep(DigitSet, 2, 2), Lit(":"), Rep(DigitSet, 2, 2), Lit(":"), Rep(DigitSet, 2, 2)>>,
            << <<1, 11>> >>),
        \* (\[\d{4}-\d{2}-\d{2}T\d{2}:\d{2}:\d{2})
        Pat(<<Lit("["),
              Rep(DigitSet, 4, 4), Lit("-"), Rep(DigitSet, 2, 2), Lit("-"), Rep(DigitSet, 2, 2),
              Lit("T"),
              Rep(DigitSet, 2, 2), Lit(":"), Rep(DigitSet, 2, 2), Lit(":"), Rep(DigitSet, 2, 2)>>,
            << <<1, 12>> >>) >>,
    error |-> <<
        Pat(<<Alt(<<"ERROR", "SEVERE", "FATAL", "Exception", "Failed">>)>>, << <<1, 1>> >>),
        Pat(<<Alt(<<"error", "failure", "exception">>)>>, << <<1, 1>> >>) >>,
    warning |-> <<
        Pat(<<Alt(<<"WARNING", "WARN">>)>>, << <<1, 1>> >>) >>,
    info |-> <<
        Pat(<<Alt(<<"INFO", "Information">>)>>, << <<1, 1>> >>) >>,
    success |-> <<
        Pat(<<Alt(<<"SUCCESS", "Completed", "Finished">>)>>, << <<1, 1>> >>) >>,
    duration |-> <<
        \* duration[:\s]+(\d+\.?\d*)\s*(s|ms|seconds|milliseconds)
        Pat(<<Lit("duration"), Many({":"} \cup SpaceSet, 1),
              Many(DigitSet, 1), Rep({"."}, 0, 1), Many(DigitSet, 0),
              Many(SpaceSet, 0), Alt(<<"s", "ms", "seconds", "milliseconds">>)>>,
            << <<3, 5>>, <<7, 7>> >>),
        \* elapsed[:\s]+(\d+\.?\d*)\s*(s|ms|seconds|milliseconds)
        Pat(<<Lit("elapsed"), Many({":"} \cup SpaceSet, 1),
              Many(DigitSet, 1), Rep({"."}, 0, 1), Many(DigitSet, 0),
              Many(SpaceSet, 0), Alt(<<"s", "ms", "seconds", "milliseconds">>)>>,
            << <<3, 5>>, <<7, 7>> >>),
        \* took\s+(\d+\.?\d*)\s*(s|ms|seconds|milliseconds)
        Pat(<<Lit("took"), Many(SpaceSet, 1),
              Many(DigitSet, 1), Rep({"."}, 0, 1), Many(DigitSet, 0),
              Many(SpaceSet, 0), Alt(<<"s", "ms", "seconds", "milliseconds">>)>>,
            << <<3, 5>>, <<7, 7>> >>) >>,
    job_name |-> <<
        \* job[:\s]+([A-Za-z0-9_\-]+)
        Pat(<<Lit("job"), Many({":"} \cup SpaceSet, 1), Many(NameSet, 1)>>, << <<3, 3>> >>),
        \* workflow[:\s]+([A-Za-z0-9_\-]+)
        Pat(<<Lit("workflow"), Many({":"} \cup SpaceSet, 1), Many(NameSet, 1)>>, << <<3, 3>> >>),
        \* session[:\s]+([A-Za-z0-9_\-]+)
        Pat(<<Lit("session"), Many({":"} \cup SpaceSet, 1), Many(NameSet, 1)>>, << <<3, 3>> >>) >>,
    rows_processed |-> <<
        \* (\d+)\s+rows?\s+(processed|loaded|extracted|inserted)
        Pat(<<Many(DigitSet, 1), Many(SpaceSet, 1), Lit("row"), Rep({"s"}, 0, 1), Many(SpaceSet, 1),
              Alt(<<"processed", "loaded", "extracted", "inserted">>)>>,
            << <<1, 1>>, <<6, 6>> >>),
        \* processed\s+(\d+)\s+records?
        Pat(<<Lit("processed"), Many(SpaceSet, 1), Many(DigitSet, 1), Many(SpaceSet, 1),
              Lit("record"), Rep({"s"}, 0, 1)>>,
            << <<3, 3>> >>) >> ]

\* re.search(pattern, line[, re.IGNORECASE]) is not None
Matches(p, ci, line) == re_search(p.items, ci, line) # <<>>

\* match.group(g) of re.search(pattern, line)
Group(p, ci, line, g) ==
    group(line, re_search(p.items, ci, line), p.groups[g][1], p.groups[g][2])

\* (mutant) the pattern whose match starts earliest in the line
FirstMatching_earliest(pats, ci, line) ==
    LET hits == {i \in 1..Len(pats) : Matches(pats[i], ci, line)}
        at(i) == re_search(pats[i].items, ci, line)[1]
    IN  IF hits = {} THEN 0
        ELSE SetMin({i \in hits : \A j \in hits : at(i) <= at(j)})

\* "for pattern in patterns: match = re.search(...); if match: ...": the
\* index of the first pattern of the list that matches, 0 when none does
FirstMatching(pats, ci, line) ==
    LET hits == {i \in 1..Len(pats) : Matches(pats[i], ci, line)}
    IN  IF hits = {} THEN 0 ELSE SetMin(hits)

\* needle in haystack (the str operator)
in(needle, haystack) ==
    \E i \in 1..(Len(haystack) + 1) : LitAt(haystack, i, needle, FALSE)

-----------------------------------------------------------------------------
(* LogParser *)

_extract_timestamp(line) ==
    LET i == FirstMatching(PATTERNS.timestamp, FALSE, line)
    IN  IF i = 0 THEN None
        ELSE Some(strip(Group(PATTERNS.timestamp[i], FALSE, line, 1), {"[", "]"}))

_is_error(line) ==
    \E i \in 1..Len(PATTERNS.error) : Matches(PATTERNS.error[i], TRUE, line)

_is_warning(line) ==
    \E i \in 1..Len(PATTERNS.warning) : Matches(PATTERNS.warning[i], TRUE, line)

\* (mutant) SUCCESS looked for before ERROR and WARNING
_extract_level_success_first(line) ==
    IF Matches(PATTERNS.success[1], TRUE, line) THEN "SUCCESS"
    ELSE IF _is_error(line) THEN "ERROR"
    ELSE IF _is_warning(line) THEN "WARNING"
    ELSE IF Matches(PATTERNS.info[1], TRUE, line) THEN "INFO"
    ELSE "UNKNOWN"

_extract_level(line) ==
    IF _is_error(line) THEN "ERROR"
    ELSE IF _is_warning(line) THEN "WARNING"
    ELSE IF Matches(PATTERNS.success[1], TRUE, line) THEN "SUCCESS"
    ELSE IF Matches(PATTERNS.info[1], TRUE, line) THEN "INFO"
    ELSE "UNKNOWN"

\* (mutant) match.group(0), the whole match, in place of match.group(1)
_extract_job_name_group0(line) ==
    LET i == FirstMatching(PATTERNS.job_name, TRUE, line)
    IN  IF i = 0 THEN None
        ELSE Some(group(line, re_search(PATTERNS.job_name[i].items, TRUE, line),
                        1, Len(PATTERNS.job_name[i].items)))

_extract_job_name(line) ==
    LET i == FirstMatching(PATTERNS.job_name, TRUE, line)
    IN  IF i = 0 THEN None ELSE Some(Group(PATTERNS.job_name[i], TRUE, line, 1))

\* a variant that takes only a unit containing "ms" for milliseconds
_extract_duration_ms_only(line) ==
    LET i == FirstMatching(PATTERNS.duration, TRUE, line)
    IN  IF i = 0 THEN None
        ELSE LET value == float(Group(PATTERNS.duration[i], TRUE, line, 1))
                 unit == str_lower(Group(PATTERNS.duration[i], TRUE, line, 2))
             IN  IF in("ms", unit) THEN Some(value \div 1000) ELSE Some(value)

\* seconds, in units of 1/SCALE
_extract_duration(line) ==
    LET i == FirstMatching(PATTERNS.duration, TRUE, line)
    IN  IF i = 0 THEN None
        ELSE LET value == float(Group(PATTERNS.duration[i], TRUE, line, 1))
                 unit == str_lower(Group(PATTERNS.duration[i], TRUE, line, 2))
                 isms == in("ms", unit) \/ in("millisecond", unit)
             IN  IF isms THEN Some(value \div 1000) ELSE Some(value)

_extract_rows_processed(line) ==
    LET i == FirstMatching(PATTERNS.rows_processed, TRUE, line)
    IN  IF i = 0 THEN None ELSE Some(int(Group(PATTERNS.rows_processed[i], TRUE, line, 1)))

\* the values the loop of parse_log_file computes from one line
extract(line) == [
    raw_text       |-> strip(line, SpaceSet),
    timestamp      |-> _extract_timestamp(line),
    level          |-> _extract_level(line),
    job_name       |-> _extract_job_name(line),
    duration       |-> _extract_duration(line),
    rows_processed |-> _extract_rows_processed(line),
    is_error       |-> _is_error(line),
    is_warning     |-> _is_warning(line) ]

\* extract, tabulated over the lines that occur, so that each line is
\* searched once however many sources contain it
Extracted == [line \in Corpus |-> extract(line)]

\* the dict built for one line in the loop of parse_log_file
entry(line_num, line) == [line_number |-> line_num] @@ Extracted[line]

\* enumerate(lines, 1)
enumerate_start == 1

\* A source is [readable, cause, lines]: the lines f.readlines() returns, or
\* the OSError open() raises.  The call returns the DataFrame (the sequence
\* of entries; pd.DataFrame([]) of no entries has no columns at all) or
\* raises Exception("Error parsing log file: " + str(e)).
\* the loop over enumerate(lines, 1): the entries of the first n lines
RECURSIVE entries(_, _)
entries(lines, n) ==
    IF n = 0 THEN <<>>
    ELSE Append(entries(lines, n - 1), entry(n - 1 + enumerate_start, lines[n]))

\* (mutant) a source that cannot be read gives no records and no failure
parse_log_file_swallow(src) ==
    IF ~src.readable THEN Ok(<<>>) ELSE Ok(entries(src.lines, Len(src.lines)))

\* (mutant) blank lines skipped
parse_log_file_skip_blank(src) ==
    IF ~src.readable
    THEN Raise("Exception", "Error parsing log file: " \o src.cause)
    ELSE LET kept == SelectSeq(src.lines, LAMBDA line : Extracted[line].raw_text # "")
         IN  Ok(entries(kept, Len(kept)))

parse_log_file(src) ==
    IF ~src.readable
    THEN Raise("Exception", "Error parsing log file: " \o src.cause)
    ELSE Ok(entries(src.lines, Len(src.lines)))

-----------------------------------------------------------------------------
(* pandas, as far as LogAnalyzer uses it.  A DataFrame is the sequence of  *)
(* its rows; a boolean mask is the set of row positions it selects.        *)

\* the column labels: pd.DataFrame([]) has none
Columns(df) == IF Len(df) = 0 THEN {} ELSE DOMAIN df[1]

\* df[mask]: the selected rows, in their order
Where(df, mask) ==
    LET F[i \in 0..Len(df)] ==
            IF i = 0 THEN <<>>
            ELSE LET rest == F[i - 1]
                 IN  IF i \in mask THEN Append(rest, df[i]) ELSE rest
    IN  F[Len(df)]

notna(df, col) == {i \in 1..Len(df) : df[i][col] # None}

\* Series.sum() of a column without missing values
RECURSIVE sum(_, _)
sum(df, col) == IF Len(df) = 0 THEN 0 ELSE df[1][col][1] + sum(Tail(df), col)

\* the binary64 of each float that extraction yields, tabulated so that
\* each is converted once
Float64 == [v \in {o[1] : o \in {Extracted[line].duration : line \in Corpus} \ {None}} |->
               binary64(v, SCALE)]

\* Series.max() of a float column with a value present: a binary64
max(df, col) == Float64[SetMax({df[i][col][1] : i \in notna(df, col)})]

\* the float64 array of a column, its missing values filled with 0.0
filled(df, col) ==
    [i \in 1..Len(df) |-> IF df[i][col] = None THEN f64_zero ELSE Float64[df[i][col][1]]]

\* Series.mean() of a float column with a value present (nanmean): the sum
\* of the filled array divided by the number of values present, a binary64
mean(df, col) == f64_div(pairwise_sum(filled(df, col)), Cardinality(notna(df, col)))

\* Series.unique(): the distinct values present, in order of first appearance
unique(df, col) ==
    LET F[i \in 0..Len(df)] ==
            IF i = 0 THEN <<>>
            ELSE LET seen == F[i - 1]
                 IN  IF \E k \in 1..Len(seen) : seen[k] = df[i][col][1]
                     THEN seen
                     ELSE Append(seen, df[i][col][1])
    IN  F[Len(df)]

\* a stable sort of the rows by descending col (mergesort on the negated
\* values): a row goes behind every row that is not smaller than it
RECURSIVE sort_desc(_, _)
sort_desc(df, col) ==
    IF Len(df) = 0 THEN <<>>
    ELSE LET front == sort_desc(SubSeq(df, 1, Len(df) - 1), col)
             row == df[Len(df)]
             k == Cardinality({j \in 1..Len(front) : front[j][col][1] >= row[col][1]})
         IN  SubSeq(front, 1, k) \o <<row>> \o SubSeq(front, k + 1, Len(front))

\* (mutant) keep='last': among equal values the later rows first
nlargest_keep_last(df, n, col) ==
    SubSeq(sort_desc([i \in 1..Len(df) |-> df[Len(df) + 1 - i]], col), 1, Min2(n, Len(df)))

\* DataFrame.nlargest(n, col), keep='first', of rows that all have a value
nlargest(df, n, col) ==
    SubSeq(sort_desc(df, col), 1, Min2(n, Len(df)))

\* Series.str.contains(alternatives, case=False, na=False) on one text
contains(text, words) == Matches(Pat(<<Alt(words)>>, <<>>), TRUE, text)

\* str(n) for n >= 0
RECURSIVE str(_)
str(n) == IF n < 10 THEN Ch(DIGITS, n + 1) ELSE str(n \div 10) \o Ch(DIGITS, (n % 10) + 1)

-----------------------------------------------------------------------------
(* LogAnalyzer *)

TopN == 10
SlowSeconds == 60

KeyError(col) == Raise("KeyError", "'" \o col \o "'")

\* a variant that puts the last timestamp first
_get_time_range_last_first(df) ==
    LET timestamps == Where(df, notna(df, "timestamp"))
    IN  IF Len(timestamps) > 0
        THEN timestamps[Len(timestamps)].timestamp[1] \o " to " \o timestamps[1].timestamp[1]
        ELSE "Unknown"

_get_time_range(df) ==
    LET timestamps == Where(df, notna(df, "timestamp"))
    IN  IF Len(timestamps) > 0
        THEN timestamps[1].timestamp[1] \o " to " \o timestamps[Len(timestamps)].timestamp[1]
        ELSE "Unknown"

\* (mutant) unique_jobs counts the records that name a job
_get_summary_job_records(df) ==
    IF "is_error" \notin Columns(df) THEN KeyError("is_error")
    ELSE Ok([total_lines   |-> Len(df),
             error_count   |-> Cardinality({i \in 1..Len(df) : df[i].is_error}),
             warning_count |-> Cardinality({i \in 1..Len(df) : df[i].is_warning}),
             unique_jobs   |-> Len(Where(df, notna(df, "job_name"))),
             time_range    |-> _get_time_range(df)])

\* the first column looked up is df['is_error']
_get_summary(df) ==
    IF "is_error" \notin Columns(df) THEN KeyError("is_error")
    ELSE Ok([total_lines   |-> Len(df),
             error_count   |-> Cardinality({i \in 1..Len(df) : df[i].is_error}),
             warning_count |-> Cardinality({i \in 1..Len(df) : df[i].is_warning}),
             unique_jobs   |-> Len(unique(Where(df, notna(df, "job_name")), "job_name")),
             time_range    |-> _get_time_range(df)])

_get_errors(df) == Where(df, {i \in 1..Len(df) : df[i].is_error = TRUE})

_get_warnings(df) == Where(df, {i \in 1..Len(df) : df[i].is_warning = TRUE})

\* (mutant) the average taken over all the records, a record without a
\* duration counting as one of 0 seconds
_analyze_performance_mean_of_all(df) ==
    LET duration_data == Where(df, notna(df, "duration"))
        rows_data == Where(df, notna(df, "rows_processed"))
    IN  [avg_duration |-> IF Len(duration_data) > 0
                          THEN f64_div(pairwise_sum(filled(df, "duration")), Len(df))
                          ELSE f64_zero,
         max_duration |-> IF Len(duration_data) > 0 THEN max(duration_data, "duration")
                          ELSE f64_zero,
         total_rows_processed |-> IF Len(rows_data) > 0 THEN sum(rows_data, "rows_processed") ELSE 0,
         slow_operations |-> IF Len(duration_data) > 0 THEN nlargest(duration_data, TopN, "duration")
                             ELSE <<>>]

_analyze_performance(df) ==
    LET duration_data == Where(df, notna(df, "duration"))
        rows_data == Where(df, notna(df, "rows_processed"))
    IN  [avg_duration |-> IF Len(duration_data) > 0 THEN mean(duration_data, "duration")
                          ELSE f64_zero,
         max_duration |-> IF Len(duration_data) > 0 THEN max(duration_data, "duration")
                          ELSE f64_zero,
         total_rows_processed |-> IF Len(rows_data) > 0 THEN sum(rows_data, "rows_processed") ELSE 0,
         slow_operations |-> IF Len(duration_data) > 0 THEN nlargest(duration_data, TopN, "duration")
                             ELSE <<>>]

\* (mutant) the average taken over all the records of the job, a record
\* without a duration counting as one of 0 seconds
_analyze_jobs_mean_of_all(df) ==
    LET jobs_data == Where(df, notna(df, "job_name"))
        names == unique(jobs_data, "job_name")
        stats(job_name) ==
            LET job_df == Where(jobs_data, {i \in 1..Len(jobs_data) : jobs_data[i].job_name[1] = job_name})
            IN  [job_name     |-> job_name,
                 occurrences  |-> Len(job_df),
                 errors       |-> Cardinality({i \in 1..Len(job_df) : job_df[i].is_error}),
                 warnings     |-> Cardinality({i \in 1..Len(job_df) : job_df[i].is_warning}),
                 avg_duration |-> IF notna(job_df, "duration") # {}
                                  THEN Some(f64_div(pairwise_sum(filled(job_df, "duration")),
                                                    Len(job_df)))
                                  ELSE None]
    IN  IF Len(jobs_data) = 0 THEN <<>>
        ELSE [k \in 1..Len(names) |-> stats(names[k])]

\* the dict, as the sequence of its items in insertion order
_analyze_jobs(df) ==
    LET jobs_data == Where(df, notna(df, "job_name"))
        names == unique(jobs_data, "job_name")
        stats(job_name) ==
            LET job_df == Where(jobs_data, {i \in 1..Len(jobs_data) : jobs_data[i].job_name[1] = job_name})
            IN  [job_name     |-> job_name,
                 occurrences  |-> Len(job_df),
                 errors       |-> Cardinality({i \in 1..Len(job_df) : job_df[i].is_error}),
                 warnings     |-> Cardinality({i \in 1..Len(job_df) : job_df[i].is_warning}),
                 avg_duration |-> IF notna(job_df, "duration") # {}
                                  THEN Some(mean(job_df, "duration")) ELSE None]
    IN  IF Len(jobs_data) = 0 THEN <<>>
        ELSE [k \in 1..Len(names) |-> stats(names[k])]

\* the keyword families, in the order the function looks at them
Families == <<
    [label |-> "Connection/Network Issues", words |-> <<"connection", "timeout", "network">>],
    [label |-> "Memory Issues",             words |-> <<"memory", "heap", "out of memory">>],
    [label |-> "Data Quality Issues",       words |-> <<"null", "invalid", "corrupt", "constraint">>],
    [label |-> "Permission/Access Issues",  words |-> <<"permission", "denied", "unauthorized", "access">>] >>

\* str.contains of each family, tabulated over the texts that occur, so
\* that each text is searched once
Contains == [text \in {strip(line, SpaceSet) : line \in Corpus} |->
                <<contains(text, Families[1].words), contains(text, Families[2].words),
                  contains(text, Families[3].words), contains(text, Families[4].words)>>]

FamilyText(label, n) == label \o ": " \o str(n) \o " occurrences"
SlowText(n) == "Performance Bottlenecks: " \o str(n) \o " slow operations (>60s)"
NoIssuesText == "No obvious issues detected"

\* (mutant) a duration of 60 seconds counted as slow
_suggest_root_causes_from_sixty(df) ==
    LET error_df == Where(df, {i \in 1..Len(df) : df[i].is_error = TRUE})
        hits(f) == Where(error_df, {i \in 1..Len(error_df) : Contains[error_df[i].raw_text][f]})
        family(f) == IF Len(error_df) > 0 /\ Len(hits(f)) > 0
                     THEN <<FamilyText(Families[f].label, Len(hits(f)))>> ELSE <<>>
        slow_ops == Where(df, {i \in 1..Len(df) :
                                   df[i].duration # None /\ df[i].duration[1] >= SlowSeconds * SCALE})
        slow == IF Len(slow_ops) > 0 THEN <<SlowText(Len(slow_ops))>> ELSE <<>>
        suggestions == family(1) \o family(2) \o family(3) \o family(4) \o slow
    IN  IF suggestions = <<>> THEN <<NoIssuesText>> ELSE suggestions

\* (mutant) the permission family looked at first
_suggest_root_causes_permission_first(df) ==
    LET error_df == Where(df, {i \in 1..Len(df) : df[i].is_error = TRUE})
        hits(f) == Where(error_df, {i \in 1..Len(error_df) : Contains[error_df[i].raw_text][f]})
        family(f) == IF Len(error_df) > 0 /\ Len(hits(f)) > 0
                     THEN <<FamilyText(Families[f].label, Len(hits(f)))>> ELSE <<>>
        slow_ops == Where(df, {i \in 1..Len(df) :
                                   df[i].duration # None /\ df[i].duration[1] > SlowSeconds * SCALE})
        slow == IF Len(slow_ops) > 0 THEN <<SlowText(Len(slow_ops))>> ELSE <<>>
        suggestions == family(4) \o family(1) \o family(2) \o family(3) \o slow
    IN  IF suggestions = <<>> THEN <<NoIssuesText>> ELSE suggestions

\* (mutant) the keywords looked for in every record, not in the errors only
_suggest_root_causes_all_records(df) ==
    LET hits(f) == Where(df, {i \in 1..Len(df) : Contains[df[i].raw_text][f]})
        family(f) == IF Len(df) > 0 /\ Len(hits(f)) > 0
                     THEN <<FamilyText(Families[f].label, Len(hits(f)))>> ELSE <<>>
        slow_ops == Where(df, {i \in 1..Len(df) :
                                   df[i].duration # None /\ df[i].duration[1] > SlowSeconds * SCALE})
        slow == IF Len(slow_ops) > 0 THEN <<SlowText(Len(slow_ops))>> ELSE <<>>
        suggestions == family(1) \o family(2) \o family(3) \o family(4) \o slow
    IN  IF suggestions = <<>> THEN <<NoIssuesText>> ELSE suggestions

\* the suggestion texts, without their leading pictograph
_suggest_root_causes(df) ==
    LET error_df == Where(df, {i \in 1..Len(df) : df[i].is_error = TRUE})
        hits(f) == Where(error_df, {i \in 1..Len(error_df) : Contains[error_df[i].raw_text][f]})
        family(f) == IF Len(error_df) > 0 /\ Len(hits(f)) > 0
                     THEN <<FamilyText(Families[f].label, Len(hits(f)))>> ELSE <<>>
        slow_ops == Where(df, {i \in 1..Len(df) :
                                   df[i].duration # None /\ df[i].duration[1] > SlowSeconds * SCALE})
        slow == IF Len(slow_ops) > 0 THEN <<SlowText(Len(slow_ops))>> ELSE <<>>
        suggestions == family(1) \o family(2) \o family(3) \o family(4) \o slow
    IN  IF suggestions = <<>> THEN <<NoIssuesText>> ELSE suggestions

\* the dict literal is evaluated in order, so a failing _get_summary is the
\* call's outcome
analyze(df) ==
    LET summary == _get_summary(df)
    IN  IF summary.raised # None THEN summary
        ELSE Ok([summary     |-> summary.returned[1],
                 errors      |-> _get_errors(df),
                 warnings    |-> _get_warnings(df),
                 performance |-> _analyze_performance(df),
                 jobs        |-> _analyze_jobs(df),
                 root_causes |-> _suggest_root_causes(df)])

-----------------------------------------------------------------------------
(* Sources *)

MaxFileLines == 2

Causes == {"[Errno 2] No such file or directory", "[Errno 13] Permission denied",
           "[Errno 5] Input/output error"}

Readable(lines) == [readable |-> TRUE, cause |-> "", lines |-> lines]
Unreadable(cause) == [readable |-> FALSE, cause |-> cause, lines |-> <<>>]

LinesUpTo(k) == UNION {[1..j -> Corpus] : j \in 0..k}

Sources == {Readable(ls) : ls \in LinesUpTo(MaxFileLines)} \cup {Unreadable(cause) : cause \in Causes}

\* the sources an ingestion followed by aggregation starts from: none, and
\* one whose nine lines all carry a duration of at least five seconds
Bases == {
    <<>>,
    <<"took 9 s", "job: A took 5 s", "elapsed: 7s", "job: B took 5000 ms",
      "FATAL: heap corrupt job: A elapsed: 61s", "elapsed: 7s",
      "Duration 90 seconds, 1200 rows processed", "job: A took 5 s", "took 9 s">> }

\* the lines appended to them
AggCorpus == {
    "ERROR connection timeout, permission denied",
    "WARNING: network access slow",
    "job: A took 5 s",
    "job: B took 5000 ms",
    "FATAL: heap corrupt job: A elapsed: 61s",
    "2024-01-01 10:00:00 job: A duration: 60 s 10 rows loaded",
    "hello world",
    "01/02/2024  10:00:00 WARN job: B retrying",
    "job: C took 0.1 s",
    "job: C took 0 s",
    "Duration 90 seconds, 1200 rows processed" }

MaxAppend == 3

-----------------------------------------------------------------------------
(* ETLLogAnalyzerApp: loading and refreshing.  The UI thread runs one       *)
(* handler or one queued callback at a time; each worker thread runs        *)
(* _parse_and_analyze a step at a time, interleaved with the UI thread and  *)
(* with the other workers.  Dialogs are dismissed at once.                  *)

\* the files the user can select
FileSystem ==
    "/logs/a.log" :> Readable(<<"ERROR connection timeout, permission denied",
                                "job: A took 5 s">>) @@
    "/logs/b.log" :> Readable(<<"WARNING: network access slow">>) @@
    "/logs/empty.log" :> Readable(<<>>) @@
    "/logs/missing.log" :> Unreadable("[Errno 2] No such file or directory")

Paths == DOMAIN FileSystem

\* the number of loads and refreshes started
MaxLoads == 2

\* Path(filepath).name
name(path) ==
    LET slashes == {i \in 1..Len(path) : Ch(path, i) = "/"}
    IN  IF slashes = {} THEN path ELSE SubSeq(path, SetMax(slashes) + 1, Len(path))

\* self.current_df, self.current_analysis, self.current_filepath = None; the
\* status bar reads "Ready"; nothing runs and nothing is queued
__init__ ==
    /\ current_df = None /\ current_analysis = None /\ current_filepath = None
    /\ status_bar = "Ready" /\ messagebox = None /\ callback_exception = None
    /\ summary_text = None
    /\ threads = <<>> /\ after_queue = <<>> /\ h_attempts = <<>>

\* the workers that have not ended
Live == {t \in 1..Len(threads) : threads[t].pc # "done"}

\* threading.Thread(target=self._parse_and_analyze, args=(filepath,)).start()
start(filepath) ==
    /\ threads' = Append(threads, [pc |-> "parse", filepath |-> filepath,
                                   arg |-> None, e |-> None])
    /\ h_attempts' =
           [t \in 1..(Len(threads) + 1) |->
               IF t = Len(threads) + 1
               THEN [before_df |-> current_df, before_analysis |-> current_analysis,
                     before_filepath |-> current_filepath,
                     solo |-> Live = {}, outcome |-> "running"]
               ELSE IF t \in Live THEN [h_attempts[t] EXCEPT !.solo = FALSE]
               ELSE h_attempts[t]]

\* the whole number a bit string stands for
whole[sig \in Seq({0, 1})] ==
    IF sig = <<>> THEN 0 ELSE 2 * whole[SubSeq(sig, 1, Len(sig) - 1)] + sig[Len(sig)]

\* the bits of x that weigh less than one, the heaviest first
fraction(x) ==
    IF x.exp < 0 THEN Zeros(-x.exp - 1) \o x.bits
    ELSE SubSeq(x.bits, x.exp + 2, Precision)

\* the bits taken at a time, few enough for a hundred times their value to
\* be a machine integer
Chunk == 20

\* a hundred times the fraction whose bits are frac followed by a tail: its
\* whole part n and the rest r beyond it (0: none, 1: less than a half, 2: a
\* half, 3: more), given n and r of a hundred times the tail
hundredths[frac \in Seq({0, 1}), n \in Nat, r \in 0..3] ==
    IF frac = <<>> THEN [n |-> n, r |-> r]
    ELSE LET lo == SetMax({1, Len(frac) - Chunk + 1})
             unit == 2^(Len(frac) - lo + 1)
             total == 100 * whole[SubSeq(frac, lo, Len(frac))] + n
         IN  hundredths[SubSeq(frac, 1, lo - 1), total \div unit,
                        IF 2 * (total % unit) > unit THEN 3
                        ELSE IF 2 * (total % unit) = unit THEN (IF r = 0 THEN 2 ELSE 3)
                        ELSE IF total % unit = 0 /\ r = 0 THEN 0
                        ELSE 1]

\* a whole part and the rest beyond it
Carried == [n : Nat, r : 0..3]

\* the hundredths nearest to units + h.n + rest, a tie going to the even one
nearest[units \in Nat, h \in Carried] ==
    100 * units + h.n
        + (IF h.r = 3 \/ (h.r = 2 /\ h.n % 2 = 1) THEN 1 ELSE 0)

\* a number of hundredths, written with two decimals
two_decimals[v \in Nat] ==
    str(v \div 100) \o "." \o str((v % 100) \div 10) \o str(v % 10)

\* f"{x:.2f}" for a binary64 x >= 0 below 2^20: the exact value of x, rounded
\* to two decimals
format_2f(x) ==
    IF is_zero(x) THEN "0.00"
    ELSE two_decimals[
             nearest[IF x.exp < 0 THEN 0
                     ELSE whole[SubSeq(x.bits, 1, x.exp + 1)],
                     hundredths[fraction(x), 0, 0]]]

\* avg_dur = f"{stats['avg_duration']:.2f}s" if stats['avg_duration'] else "N/A":
\* None and 0.0 are both false
avg_dur(stats) ==
    IF stats.avg_duration # None /\ ~is_zero(stats.avg_duration[1])
    THEN format_2f(stats.avg_duration[1]) \o "s"
    ELSE "N/A"

\* _update_summary: of the report it writes, the rows of the job table, one
\* for each job in the order of the dict (none when jobs is empty)
_update_summary(analysis) ==
    [k \in 1..Len(analysis.jobs) |->
        [job_name |-> analysis.jobs[k].job_name,
         occurrences |-> analysis.jobs[k].occurrences,
         errors |-> analysis.jobs[k].errors,
         warnings |-> analysis.jobs[k].warnings,
         avg_dur |-> avg_dur(analysis.jobs[k])]]

\* _update_ui_after_load, run while current_filepath is now: the report, the
\* status bar and the dialog it leaves.  _update_timeline looks up
\* current_df['timestamp'], a column a DataFrame without rows does not have
_update_ui_after_load(ui, now) ==
    LET filename == name(now[1])
        lines == str(Len(current_df[1]))
        shown == [ui EXCEPT !.summary_text = Some(_update_summary(current_analysis[1]))]
    IN  IF "timestamp" \notin Columns(current_df[1])
        THEN [shown EXCEPT !.callback_exception = Some("KeyError")]
        ELSE [shown EXCEPT
            !.status_bar = "Loaded: " \o filename \o " (" \o lines \o " lines)",
            !.messagebox = Some([kind |-> "showinfo", title |-> "Success",
                message |-> "Log file parsed successfully!\n\nTotal lines: " \o lines
                    \o "\nErrors: " \o str(current_analysis[1].summary.error_count)
                    \o "\nWarnings: " \o str(current_analysis[1].summary.warning_count)])]

\* lambda: messagebox.showerror("Error", f"Failed to parse log file:\n{str(e)}")
\* of worker t: e is read when the callback runs, and is unbound once the
\* worker has left its except block
showerror_lambda(ui, t) ==
    IF threads[t].e # None
    THEN [ui EXCEPT !.messagebox = Some([kind |-> "showerror", title |-> "Error",
              message |-> "Failed to parse log file:\n" \o threads[t].e[1].msg])]
    ELSE [ui EXCEPT !.callback_exception = Some("NameError")]

\* lambda: self.status_bar.config(text="Ready")
status_lambda(ui) == [ui EXCEPT !.status_bar = "Ready"]

\* one queued callback, run by the UI thread
call(cb, ui, now) ==
    CASE cb.callback = "_update_ui_after_load" -> _update_ui_after_load(ui, now)
      [] cb.callback = "showerror" -> showerror_lambda(ui, cb.thread)
      [] cb.callback = "status" -> status_lambda(ui)

\* self.root.update() inside a handler: every callback due is run, in order
RECURSIVE update(_, _, _)
update(queue, ui, now) ==
    IF queue = <<>> THEN ui ELSE update(Tail(queue), call(Head(queue), ui, now), now)

UI == [status_bar |-> status_bar, messagebox |-> messagebox,
       callback_exception |-> callback_exception, summary_text |-> summary_text]

Show(ui) ==
    /\ status_bar' = ui.status_bar
    /\ messagebox' = ui.messagebox
    /\ callback_exception' = ui.callback_exception
    /\ summary_text' = ui.summary_text

\* open_log_file with filepath selected in the dialog (nothing selected: it
\* returns at once)
open_log_file(filepath) ==
    /\ Len(threads) < MaxLoads
    /\ current_filepath' = Some(filepath)
    /\ Show(update(after_queue,
                   [UI EXCEPT !.status_bar = "Loading " \o name(filepath) \o "..."],
                   Some(filepath)))
    /\ after_queue' = <<>>
    /\ start(filepath)
    /\ UNCHANGED <<current_df, current_analysis, pvars, avars>>

\* refresh_analysis with a file loaded
refresh_analysis ==
    /\ current_filepath # None
    /\ Len(threads) < MaxLoads
    /\ Show(update(after_queue, [UI EXCEPT !.status_bar = "Refreshing analysis..."],
                   current_filepath))
    /\ after_queue' = <<>>
    /\ start(current_filepath[1])
    /\ UNCHANGED <<current_df, current_analysis, current_filepath, pvars, avars>>

\* refresh_analysis with no file loaded
refresh_analysis_nothing ==
    /\ current_filepath = None
    /\ messagebox # Some([kind |-> "showinfo", title |-> "Info",
                          message |-> "No log file loaded."])
    /\ messagebox' = Some([kind |-> "showinfo", title |-> "Info",
                           message |-> "No log file loaded."])
    /\ UNCHANGED <<current_df, current_analysis, current_filepath, status_bar,
                   callback_exception, summary_text, threads, after_queue, h_attempts,
                   pvars, avars>>

\* root.mainloop(): the oldest queued callback is run
mainloop ==
    /\ after_queue # <<>>
    /\ Show(call(Head(after_queue), UI, current_filepath))
    /\ after_queue' = Tail(after_queue)
    /\ UNCHANGED <<current_df, current_analysis, current_filepath, threads, h_attempts,
                   pvars, avars>>

At(t, pc) == t \in 1..Len(threads) /\ threads[t].pc = pc

\* parse_log_file and analyze, worked out once for the files there are and
\* for the DataFrames they give
Parsed == [path \in Paths |-> parse_log_file(FileSystem[path])]

Frames == {Parsed[path].returned[1] : path \in {q \in Paths : Parsed[q].raised = None}}

Analysis == [df \in Frames |-> analyze(df)]

analyze_frame(df) == IF df \in Frames THEN Analysis[df] ELSE analyze(df)

\* (mutant) the records parsed are added to those held
parse_step_merge(t) ==
    /\ At(t, "parse")
    /\ LET out == parse_log_file(FileSystem[threads[t].filepath])
       IN  IF out.raised = None
           THEN /\ current_df' = Some((IF current_df = None THEN <<>> ELSE current_df[1])
                                      \o out.returned[1])
                /\ threads' = [threads EXCEPT ![t].pc = "load_df"]
           ELSE /\ threads' = [threads EXCEPT ![t].pc = "except", ![t].e = out.raised]
                /\ UNCHANGED current_df
    /\ UNCHANGED <<current_analysis, current_filepath, uivars, after_queue, h_attempts,
                   pvars, avars>>

\* self.current_df = LogParser.parse_log_file(filepath)
parse_step(t) ==
    /\ At(t, "parse")
    /\ LET out == Parsed[threads[t].filepath]
       IN  IF out.raised = None
           THEN /\ current_df' = out.returned
                /\ threads' = [threads EXCEPT ![t].pc = "load_df"]
           ELSE /\ threads' = [threads EXCEPT ![t].pc = "except", ![t].e = out.raised]
                /\ UNCHANGED current_df
    /\ UNCHANGED <<current_analysis, current_filepath, uivars, after_queue, h_attempts,
                   pvars, avars>>

\* the argument of analyze is read: self.current_df
load_df_step(t) ==
    /\ At(t, "load_df")
    /\ threads' = [threads EXCEPT ![t].pc = "analyze", ![t].arg = current_df]
    /\ UNCHANGED <<current_df, current_analysis, current_filepath, uivars, after_queue,
                   h_attempts, pvars, avars>>

\* what worker t does with the outcome of analyze: the result is stored, a
\* failure goes to the except clause
analyze_outcome(t, out) ==
    IF out.raised = None
    THEN /\ current_analysis' = out.returned
         /\ threads' = [threads EXCEPT ![t].pc = "after", ![t].arg = None]
    ELSE /\ threads' = [threads EXCEPT ![t].pc = "except", ![t].arg = None,
                                       ![t].e = out.raised]
         /\ UNCHANGED current_analysis

\* self.current_analysis = LogAnalyzer.analyze(<the argument read>)
analyze_step(t) ==
    /\ At(t, "analyze")
    /\ analyze_outcome(t, analyze_frame(threads[t].arg[1]))
    /\ UNCHANGED <<current_df, current_filepath, uivars, after_queue, h_attempts,
                   pvars, avars>>

\* self.root.after(0, self._update_ui_after_load), and the worker ends
after_step(t) ==
    /\ At(t, "after")
    /\ after_queue' = Append(after_queue, [callback |-> "_update_ui_after_load", thread |-> t])
    /\ threads' = [threads EXCEPT ![t].pc = "done"]
    /\ h_attempts' = [h_attempts EXCEPT ![t].outcome = "success"]
    /\ UNCHANGED <<current_df, current_analysis, current_filepath, uivars, pvars, avars>>

\* except Exception as e: self.root.after(0, lambda: messagebox.showerror(...))
except_step(t) ==
    /\ At(t, "except")
    /\ after_queue' = Append(after_queue, [callback |-> "showerror", thread |-> t])
    /\ threads' = [threads EXCEPT ![t].pc = "except_status"]
    /\ UNCHANGED <<current_df, current_analysis, current_filepath, uivars, h_attempts,
                   pvars, avars>>

\* self.root.after(0, lambda: self.status_bar.config(text="Ready")); the except
\* block ends, which unbinds e, and the worker ends
except_status_step(t) ==
    /\ At(t, "except_status")
    /\ after_queue' = Append(after_queue, [callback |-> "status", thread |-> t])
    /\ threads' = [threads EXCEPT ![t].pc = "done", ![t].e = None]
    /\ h_attempts' = [h_attempts EXCEPT ![t].outcome = "failure"]
    /\ UNCHANGED <<current_df, current_analysis, current_filepath, uivars, pvars, avars>>

\* one step of _parse_and_analyze in worker t
_parse_and_analyze(t) ==
    \/ parse_step(t)
    \/ load_df_step(t)
    \/ analyze_step(t)
    \/ after_step(t)
    \/ except_step(t)
    \/ except_status_step(t)

Init ==
    /\ __init__
    /\ p_src = Readable(<<>>) /\ p_out = None /\ calls = <<>>
    /\ a_src = Readable(<<>>) /\ a_added = 0 /\ a_df = None /\ a_out = None

Next ==
    \/ \E filepath \in Paths : open_log_file(filepath)
    \/ refresh_analysis
    \/ refresh_analysis_nothing
    \/ mainloop
    \/ \E t \in 1..MaxLoads : _parse_and_analyze(t)

Spec == Init /\ [][Next]_vars

\* the same with the scheduling the program runs under: a started thread is
\* given the processor until it has ended, and root.mainloop() runs a queued
\* callback once it is due
Fairness ==
    /\ WF_vars(mainloop)
    /\ \A t \in 1..MaxLoads : WF_vars(_parse_and_analyze(t))

SpecFair == Init /\ [][Next]_vars /\ Fairness

-----------------------------------------------------------------------------
(* SpecHeld: the application taken up after earlier loads have ended.  It  *)
(* starts either as constructed or holding the records and the analysis of *)
(* file p while current_filepath is file q, with the status bar and the    *)
(* dialog as _update_ui_after_load has left them and nothing running or    *)
(* queued: the state in which two loads, of p and then of q, leave it when *)
(* the worker of p is the last to write.                                   *)

Loadable == {path \in Paths : FileSystem[path].readable /\ FileSystem[path].lines # <<>>}

Held(p, q) ==
    /\ current_df = parse_log_file(FileSystem[p]).returned
    /\ current_analysis = analyze(current_df[1]).returned
    /\ current_filepath = Some(q)
    /\ callback_exception = None
    /\ after_queue = <<>>
    /\ LET ui == _update_ui_after_load([status_bar |-> "", messagebox |-> None,
                                         callback_exception |-> None,
                                         summary_text |-> None], Some(q))
       IN  /\ status_bar = ui.status_bar /\ messagebox = ui.messagebox
           /\ summary_text = ui.summary_text

InitHeld ==
    \/ Init
    \/ /\ \E p \in Loadable, q \in Loadable : Held(p, q)
       /\ threads = <<>> /\ h_attempts = <<>>
       /\ p_src = Readable(<<>>) /\ p_out = None /\ calls = <<>>
       /\ a_src = Readable(<<>>) /\ a_added = 0 /\ a_df = None /\ a_out = None

SpecHeld == InitHeld /\ [][Next]_vars

-----------------------------------------------------------------------------
(* SpecParse: parse_log_file applied to every source *)

InitParse ==
    /\ p_src \in Sources
    /\ p_out = None /\ calls = <<>>
    /\ a_src = Readable(<<>>) /\ a_added = 0 /\ a_df = None /\ a_out = None
    /\ __init__

CallParse ==
    /\ p_out = None
    /\ p_out' = Some(parse_log_file(p_src))
    /\ UNCHANGED <<p_src, calls, avars, appvars>>

NextParse == CallParse

SpecParse == InitParse /\ [][NextParse]_vars

-----------------------------------------------------------------------------
(* SpecCore: two callers run parse_log_file and then analyze, each on its  *)
(* own file, side by side.  An invocation of parse_log_file goes through   *)
(* its statements one at a time: the file is read, an entry is appended    *)
(* for each line, the DataFrame is built.  lines, entries and the frame    *)
(* are locals of the invocation; PATTERNS is shared and never written.     *)

invoke(filepath) ==
    [filepath |-> filepath, pc |-> "open", lines |-> <<>>, entries |-> <<>>,
     parsed |-> None, result |-> None]

InitCore ==
    /\ calls \in {<<invoke(p), invoke(q)>> : p, q \in Paths} \ {<<invoke(p), invoke(p)>> : p \in Paths}
    /\ p_src = Readable(<<>>) /\ p_out = None
    /\ a_src = Readable(<<>>) /\ a_added = 0 /\ a_df = None /\ a_out = None
    /\ __init__

\* with open(filepath, ...) as f: lines = f.readlines(); a failure is raised
\* again by the except clause
readlines_step(k) ==
    /\ calls[k].pc = "open"
    /\ LET src == FileSystem[calls[k].filepath]
       IN  calls' = IF src.readable
                    THEN [calls EXCEPT ![k].pc = "loop", ![k].lines = src.lines]
                    ELSE [calls EXCEPT ![k].pc = "done",
                              ![k].parsed = Some(Raise("Exception",
                                  "Error parsing log file: " \o src.cause))]
    /\ UNCHANGED <<p_src, p_out, avars, appvars>>

\* (mutant) one list of entries for all invocations
append_step_shared(k) ==
    /\ calls[k].pc = "loop"
    /\ Len(calls[k].entries) < Len(calls[k].lines)
    /\ LET line_num == Len(calls[k].entries) + enumerate_start
           line == calls[k].lines[Len(calls[k].entries) + 1]
       IN  calls' = [j \in 1..Len(calls) |->
                        [calls[j] EXCEPT !.entries = Append(@, entry(line_num, line))]]
    /\ UNCHANGED <<p_src, p_out, avars, appvars>>

\* one turn of the loop: entries.append(entry)
append_step(k) ==
    /\ calls[k].pc = "loop"
    /\ Len(calls[k].entries) < Len(calls[k].lines)
    /\ LET line_num == Len(calls[k].entries) + enumerate_start
           line == calls[k].lines[Len(calls[k].entries) + 1]
       IN  calls' = [calls EXCEPT ![k].entries = Append(@, entry(line_num, line))]
    /\ UNCHANGED <<p_src, p_out, avars, appvars>>

\* df = pd.DataFrame(entries); return df
DataFrame_step(k) ==
    /\ calls[k].pc = "loop"
    /\ Len(calls[k].entries) = Len(calls[k].lines)
    /\ calls' = [calls EXCEPT ![k].pc = "analyze", ![k].parsed = Some(Ok(calls[k].entries))]
    /\ UNCHANGED <<p_src, p_out, avars, appvars>>

\* the caller hands the frame to LogAnalyzer.analyze
analyze_step_core(k) ==
    /\ calls[k].pc = "analyze"
    /\ calls' = [calls EXCEPT ![k].pc = "done",
                     ![k].result = Some(analyze(calls[k].parsed[1].returned[1]))]
    /\ UNCHANGED <<p_src, p_out, avars, appvars>>

NextCore ==
    \E k \in 1..Len(calls) :
        \/ readlines_step(k)
        \/ append_step(k)
        \/ DataFrame_step(k)
        \/ analyze_step_core(k)

SpecCore == InitCore /\ [][NextCore]_vars

-----------------------------------------------------------------------------
(* SpecAnalyze: ingestion followed by aggregation, as _parse_and_analyze   *)
(* chains them, over sources grown a line at a time, and the report of the *)
(* result                                                                  *)

InitAnalyze ==
    /\ a_src \in {Readable(b) : b \in Bases}
    /\ a_added = 0 /\ a_df = None /\ a_out = None
    /\ p_src = Readable(<<>>) /\ p_out = None /\ calls = <<>>
    /\ __init__

AppendLine ==
    /\ a_df = None
    /\ a_added < MaxAppend
    /\ \E line \in AggCorpus : a_src' = Readable(Append(a_src.lines, line))
    /\ a_added' = a_added + 1
    /\ UNCHANGED <<a_df, a_out, pvars, appvars>>

CallAnalyze ==
    /\ a_df = None
    /\ a_df' = parse_log_file(a_src).returned
    /\ a_out' = Some(analyze(a_df'[1]))
    /\ UNCHANGED <<a_src, a_added, pvars, appvars>>

\* the result is shown: _update_summary
ShowSummary ==
    /\ a_out # None /\ a_out[1].raised = None
    /\ summary_text = None
    /\ summary_text' = Some(_update_summary(a_out[1].returned[1]))
    /\ UNCHANGED <<avars, pvars, current_df, current_analysis, current_filepath,
                   status_bar, messagebox, callback_exception, threads, after_queue,
                   h_attempts>>

NextAnalyze == AppendLine \/ CallAnalyze \/ ShowSummary

SpecAnalyze == InitAnalyze /\ [][NextAnalyze]_vars

-----------------------------------------------------------------------------
(* What the claims are stated with *)

\* word occurs in text, letter case ignored
Occurs(word, text) ==
    \E pos \in 1..(Len(text) - Len(word) + 1) :
        \A j \in 1..Len(word) : lower(Ch(text, pos + j - 1)) = lower(Ch(word, j))

OccursAny(words, text) == \E word \in words : Occurs(word, text)

\* for each line that occurs, the tokens of each level it carries
Tokens == [line \in Corpus |->
              [error   |-> OccursAny({"ERROR", "SEVERE", "FATAL", "Exception", "Failed", "failure"}, line),
               warning |-> OccursAny({"WARNING", "WARN"}, line),
               success |-> OccursAny({"SUCCESS", "Completed", "Finished"}, line),
               info    |-> OccursAny({"INFO", "Information"}, line)]]

\* for each text that occurs, the keyword families it mentions
Mentions == [text \in {strip(line, SpaceSet) : line \in Corpus} |->
                <<OccursAny({"connection", "timeout", "network"}, text),
                  OccursAny({"memory", "heap", "out of memory"}, text),
                  OccursAny({"null", "invalid", "corrupt", "constraint"}, text),
                  OccursAny({"permission", "denied", "unauthorized", "access"}, text)>>]

\* the records parse_log_file returned, <<>> when it has not returned any
ParsedRows == IF p_out # None /\ p_out[1].raised = None THEN p_out[1].returned[1] ELSE <<>>

\* analyze has returned a result for a_df
Analyzed == a_out # None /\ a_out[1].raised = None
Result == a_out[1].returned[1]

StartsWith(text, prefix) == Len(text) >= Len(prefix) /\ SubSeq(text, 1, Len(prefix)) = prefix

-----------------------------------------------------------------------------
(* C1 *)

\* C1 (as claimed): for a source of zero lines, analyze returns the empty
\* result: all four counts 0, time_range "Unknown", no errors, no warnings,
\* no jobs, and the no-issues suggestion as the only root cause.
C1_EmptyInputGivesEmptyResult ==
    (a_out # None /\ a_src.lines = <<>>) =>
        /\ a_out[1].raised = None
        /\ Result.summary = [total_lines |-> 0, error_count |-> 0, warning_count |-> 0,
                             unique_jobs |-> 0, time_range |-> "Unknown"]
        /\ Result.errors = <<>>
        /\ Result.warnings = <<>>
        /\ Result.jobs = <<>>
        /\ Result.root_causes = <<NoIssuesText>>

-----------------------------------------------------------------------------
(* C2 *)

C2Line == "2024-01-01 10:00:00 ERROR job: LoadCustomers Failed after 1500 ms"

C2Rows == {i \in 1..Len(ParsedRows) : p_src.lines[i] = C2Line}

\* C2 (as claimed): the record of the line has timestamp
\* "2024-01-01 10:00:00", level ERROR, is_error true, job_name
\* "LoadCustomers" and a duration of 1.5 seconds.
C2_AsClaimed ==
    \A i \in C2Rows :
        /\ ParsedRows[i].timestamp = Some("2024-01-01 10:00:00")
        /\ ParsedRows[i].level = "ERROR"
        /\ ParsedRows[i].is_error = TRUE
        /\ ParsedRows[i].job_name = Some("LoadCustomers")
        /\ ParsedRows[i].duration = Some((3 * SCALE) \div 2)

\* C2 (amended): the record of the line has timestamp
\* "2024-01-01 10:00:00", level ERROR, is_error true, job_name
\* "LoadCustomers" and no duration: "after 1500 ms" follows none of
\* duration, elapsed and took.
C2_LineExtraction ==
    \A i \in C2Rows :
        /\ ParsedRows[i].timestamp = Some("2024-01-01 10:00:00")
        /\ ParsedRows[i].level = "ERROR"
        /\ ParsedRows[i].is_error = TRUE
        /\ ParsedRows[i].job_name = Some("LoadCustomers")
        /\ ParsedRows[i].duration = None

C2_Witness == C2Rows # {}

-----------------------------------------------------------------------------
(* C3 *)

\* C3: the level of every record is the first applicable of ERROR (an error
\* token occurs in the line, in any letter case), WARNING, SUCCESS, INFO,
\* UNKNOWN; so a line with an error token is ERROR whatever else it carries.
C3_LevelPrecedence ==
    \A i \in 1..Len(ParsedRows) :
        ParsedRows[i].level =
            IF Tokens[p_src.lines[i]].error THEN "ERROR"
            ELSE IF Tokens[p_src.lines[i]].warning THEN "WARNING"
            ELSE IF Tokens[p_src.lines[i]].success THEN "SUCCESS"
            ELSE IF Tokens[p_src.lines[i]].info THEN "INFO"
            ELSE "UNKNOWN"

\* a parsed source with a line of error and success tokens, one of error and
\* warning tokens, and one of success and info tokens
C3_Witness ==
    /\ \E i \in 1..Len(ParsedRows) :
           Tokens[p_src.lines[i]].error /\ Tokens[p_src.lines[i]].success
    /\ \E i \in 1..Len(ParsedRows) :
           \/ Tokens[p_src.lines[i]].error /\ Tokens[p_src.lines[i]].warning
           \/ ~Tokens[p_src.lines[i]].error /\ Tokens[p_src.lines[i]].success
                 /\ (Tokens[p_src.lines[i]].info \/ Tokens[p_src.lines[i]].warning)

-----------------------------------------------------------------------------
(* C4 *)

\* C4: when the source cannot be opened or read, what the caller of
\* parse_log_file gets is the failure and nothing else: an exception whose
\* message is "Error parsing log file: " followed by the text of the
\* underlying cause, and no record collection, partial or empty.
C4_UnreadableSourceFails ==
    (p_out # None /\ ~p_src.readable) =>
        /\ p_out[1].returned = None
        /\ p_out[1].raised # None
        /\ p_out[1].raised[1].type = "Exception"
        /\ StartsWith(p_out[1].raised[1].msg, "Error parsing log file: ")
        /\ SubSeq(p_out[1].raised[1].msg, Len("Error parsing log file: ") + 1,
                  Len(p_out[1].raised[1].msg)) = p_src.cause

C4_Witness ==
    /\ p_out # None
    /\ p_src = Unreadable("[Errno 13] Permission denied")
    /\ p_out[1].raised # None

-----------------------------------------------------------------------------
(* C5 *)

\* the workers that ran with no other worker alive, and have ended as told
Alone(outcome) ==
    {t \in 1..Len(threads) : h_attempts[t].solo /\ h_attempts[t].outcome = outcome}

\* C5 (as claimed): when a load or refresh that ran alone has ended in the
\* failure branch of _parse_and_analyze, and no later one has started,
\* current_df and current_analysis are what they were when it started.
C5_FailureKeepsHeldResult ==
    \A t \in Alone("failure") :
        t = Len(threads) =>
            /\ current_df = h_attempts[t].before_df
            /\ current_analysis = h_attempts[t].before_analysis

-----------------------------------------------------------------------------
(* C6 *)

\* the lines of the file at filepath
FileLines(filepath) == FileSystem[filepath].lines

\* C6: when a load or refresh of file F that ran alone has completed
\* successfully, and no later one has started, the records held are those of
\* the lines of F, one per line and in order, and none else, and the analysis
\* held is the analysis of these records: its line count is the number of
\* lines of F, and every error, warning and job it lists comes from a line
\* of F.
C6_HeldResultIsOfLastLoad ==
    \A t \in Alone("success") :
        t = Len(threads) =>
            LET F == FileLines(threads[t].filepath)
                texts == {strip(F[i], SpaceSet) : i \in 1..Len(F)}
                jobs == {Extracted[F[i]].job_name : i \in 1..Len(F)}
                held == current_analysis[1]
            IN  /\ current_df # None /\ current_analysis # None
                /\ Len(current_df[1]) = Len(F)
                /\ \A i \in 1..Len(F) : current_df[1][i] = entry(i, F[i])
                /\ held = analyze(current_df[1]).returned[1]
                /\ held.summary.total_lines = Len(F)
                /\ \A i \in 1..Len(held.errors) : held.errors[i].raw_text \in texts
                /\ \A i \in 1..Len(held.warnings) : held.warnings[i].raw_text \in texts
                /\ \A i \in 1..Len(held.jobs) : Some(held.jobs[i].job_name) \in jobs

\* a file has been loaded alone, with success, after another file had been
C6_Witness ==
    /\ Len(threads) = 2
    /\ 2 \in Alone("success")
    /\ threads[1].filepath # threads[2].filepath
    /\ h_attempts[2].before_df # None
    /\ h_attempts[2].before_df # current_df
    /\ h_attempts[2].before_analysis # None

-----------------------------------------------------------------------------
(* C7 *)

\* C7: a source of n lines gives n records, the i-th with line_number i and
\* the fields of the i-th line; nothing is dropped, duplicated or reordered.
C7_OneRecordPerLine ==
    (p_out # None /\ p_src.readable) =>
        /\ p_out[1].raised = None
        /\ Len(ParsedRows) = Len(p_src.lines)
        /\ \A i \in 1..Len(p_src.lines) :
               /\ ParsedRows[i].line_number = i
               /\ ParsedRows[i].raw_text = strip(p_src.lines[i], SpaceSet)
               /\ [f \in DOMAIN Extracted[p_src.lines[i]] |-> ParsedRows[i][f]] = Extracted[p_src.lines[i]]

\* a parsed source with a blank line and, after it, a line no pattern matches
C7_Witness ==
    /\ Len(ParsedRows) = 2
    /\ p_src.lines[1] = ""
    /\ p_src.lines[2] = "hello world"

-----------------------------------------------------------------------------
(* C8 *)

SlowOps == Result.performance.slow_operations
WithDuration == {i \in 1..Len(a_df[1]) : a_df[1][i].duration # None}
Chosen == {SlowOps[j].line_number : j \in 1..Len(SlowOps)}

\* row i of the collection goes before row j in the order of slow_operations
Slower(i, j) ==
    \/ a_df[1][i].duration[1] > a_df[1][j].duration[1]
    \/ a_df[1][i].duration[1] = a_df[1][j].duration[1] /\ i < j

\* C8: slow_operations holds min(10, d) of the d records with a duration:
\* the greatest ones, in descending duration, equal durations in file order,
\* the earlier record kept when a tie straddles the cut; none when d = 0.
C8_SlowOperations ==
    Analyzed =>
        /\ Len(SlowOps) = Min2(10, Cardinality(WithDuration))
        /\ \A j \in 1..Len(SlowOps) :
               /\ SlowOps[j].line_number \in WithDuration
               /\ SlowOps[j] = a_df[1][SlowOps[j].line_number]
        /\ \A j \in 1..(Len(SlowOps) - 1) :
               Slower(SlowOps[j].line_number, SlowOps[j + 1].line_number)
        /\ \A i \in WithDuration \ Chosen : \A j \in Chosen : Slower(j, i)

\* more than ten records with a duration, and a record left out whose
\* duration equals that of the last one kept
C8_Witness ==
    /\ Analyzed
    /\ Cardinality(WithDuration) > 10
    /\ \E i \in WithDuration \ Chosen :
           a_df[1][i].duration = SlowOps[Len(SlowOps)].duration

-----------------------------------------------------------------------------
(* C9 *)

\* the place of a suggestion in the fixed order; 0 for any other text
Place(text) ==
    IF StartsWith(text, "Connection/Network Issues: ") THEN 1
    ELSE IF StartsWith(text, "Memory Issues: ") THEN 2
    ELSE IF StartsWith(text, "Data Quality Issues: ") THEN 3
    ELSE IF StartsWith(text, "Permission/Access Issues: ") THEN 4
    ELSE IF StartsWith(text, "Performance Bottlenecks: ") THEN 5
    ELSE IF text = "No obvious issues detected" THEN 6
    ELSE 0

\* C9: root_causes is never empty; its suggestions follow the order
\* connection, memory, data quality, permission, performance, each at most
\* once; the no-issues suggestion is there exactly when none of them is, and
\* then alone.
C9_RootCauseOrder ==
    Analyzed =>
        /\ Len(Result.root_causes) >= 1
        /\ \A j \in 1..Len(Result.root_causes) : Place(Result.root_causes[j]) # 0
        /\ \A j \in 1..(Len(Result.root_causes) - 1) :
               Place(Result.root_causes[j]) < Place(Result.root_causes[j + 1])
        /\ (\E j \in 1..Len(Result.root_causes) : Place(Result.root_causes[j]) = 6)
               <=> ~(\E j \in 1..Len(Result.root_causes) : Place(Result.root_causes[j]) \in 1..5)

\* a result with a connection and a permission suggestion
C9_Witness ==
    /\ Analyzed
    /\ \E j \in 1..Len(Result.root_causes) : Place(Result.root_causes[j]) = 1
    /\ \E j \in 1..Len(Result.root_causes) : Place(Result.root_causes[j]) = 4

-----------------------------------------------------------------------------
(* C10 *)

FamilyLabels == <<"Connection/Network Issues", "Memory Issues", "Data Quality Issues",
                  "Permission/Access Issues">>

\* the error records that mention family f
ErrorMentions(f) ==
    {i \in 1..Len(a_df[1]) : a_df[1][i].is_error /\ Mentions[a_df[1][i].raw_text][f]}

\* C10: the suggestion of a keyword family is listed exactly when an error
\* record mentions one of its keywords, and reports the number of such error
\* records; records that are not errors count for nothing, and an error
\* record mentioning several families counts in each.
C10_FamilyCounts ==
    Analyzed =>
        \A f \in 1..4 :
            /\ \A j \in 1..Len(Result.root_causes) :
                   (Place(Result.root_causes[j]) = f) =>
                       /\ ErrorMentions(f) # {}
                       /\ Result.root_causes[j] =
                              FamilyLabels[f] \o ": " \o str(Cardinality(ErrorMentions(f))) \o " occurrences"
            /\ (ErrorMentions(f) # {}) =>
                   (\E j \in 1..Len(Result.root_causes) : Place(Result.root_causes[j]) = f)

\* a result over a record that mentions a family without being an error and
\* an error record that mentions two families
C10_Witness ==
    /\ Analyzed
    /\ \E i \in 1..Len(a_df[1]) : ~a_df[1][i].is_error /\ Mentions[a_df[1][i].raw_text][1]
    /\ \E i \in 1..Len(a_df[1]) : i \in ErrorMentions(1) /\ i \in ErrorMentions(4)
    /\ Cardinality(ErrorMentions(1)) >= 2

-----------------------------------------------------------------------------
(* C11 *)

\* the positions of the records of a_df with that job name, and of those
\* among them that have a duration
JobRows(job_name) == {i \in 1..Len(a_df[1]) : a_df[1][i].job_name = Some(job_name)}
JobTimed(job_name) == {i \in JobRows(job_name) : a_df[1][i].duration # None}

\* the members of a set of positions, in ascending order
Ascending(S) ==
    [k \in 1..Cardinality(S) |-> CHOOSE i \in S : Cardinality({j \in S : j < i}) = k - 1]

\* the float mean of the durations at these positions
MeanAt(S) ==
    f64_div(pairwise_sum([k \in 1..Cardinality(S) |->
                             Float64[a_df[1][Ascending(S)[k]].duration[1]]]),
            Cardinality(S))

\* C11: the jobs rollup has one entry for each job name that some record
\* carries and no other, the entries are in the order in which the names
\* first appear in the file, and the entry of a job gives the number of its
\* records, the numbers of them that are errors and warnings, and the mean
\* of the durations of those of them that have one (none when none has).
C11_JobsRollup ==
    Analyzed =>
        LET jobs == Result.jobs
            first(k) == SetMin(JobRows(jobs[k].job_name))
        IN  /\ \A i \in 1..Len(a_df[1]) :
                   a_df[1][i].job_name # None =>
                       \E k \in 1..Len(jobs) : Some(jobs[k].job_name) = a_df[1][i].job_name
            /\ \A k \in 1..Len(jobs) :
                   /\ JobRows(jobs[k].job_name) # {}
                   /\ \A l \in 1..(k - 1) : first(l) < first(k)
                   /\ jobs[k].occurrences = Cardinality(JobRows(jobs[k].job_name))
                   /\ jobs[k].errors =
                          Cardinality({i \in JobRows(jobs[k].job_name) : a_df[1][i].is_error})
                   /\ jobs[k].warnings =
                          Cardinality({i \in JobRows(jobs[k].job_name) : a_df[1][i].is_warning})
                   /\ jobs[k].avg_duration =
                          IF JobTimed(jobs[k].job_name) = {} THEN None
                          ELSE Some(MeanAt(JobTimed(jobs[k].job_name)))

\* three jobs, one of them with records with and without a duration, and a
\* record of no job
C11_Witness ==
    /\ Analyzed
    /\ Len(Result.jobs) = 3
    /\ \E k \in 1..Len(Result.jobs) :
           /\ JobTimed(Result.jobs[k].job_name) # {}
           /\ JobTimed(Result.jobs[k].job_name) # JobRows(Result.jobs[k].job_name)
    /\ \E i \in 1..Len(a_df[1]) : a_df[1][i].job_name = None

-----------------------------------------------------------------------------
(* C12 *)

\* the sum of rows_processed over the records that have it
RECURSIVE RowsUpTo(_)
RowsUpTo(k) ==
    IF k = 0 THEN 0
    ELSE RowsUpTo(k - 1) + (IF a_df[1][k].rows_processed = None THEN 0
                            ELSE a_df[1][k].rows_processed[1])

\* what is claimed of the statistics other than that max >= avg
C12_Restricted ==
    LET performance == Result.performance
    IN  /\ performance.total_rows_processed = RowsUpTo(Len(a_df[1]))
        /\ WithDuration = {} =>
               performance.avg_duration = f64_zero /\ performance.max_duration = f64_zero
        /\ WithDuration # {} =>
               /\ performance.avg_duration = MeanAt(WithDuration)
               /\ performance.max_duration =
                      Float64[SetMax({a_df[1][i].duration[1] : i \in WithDuration})]

\* C12: avg_duration and max_duration are the mean and the
\* maximum of the durations present, 0 when there is none,
\* total_rows_processed is the sum of the rows_processed present, 0 when
\* there is none, and max_duration >= avg_duration.
C12_AsClaimed ==
    Analyzed =>
        /\ C12_Restricted
        /\ ~f64_lt(Result.performance.max_duration, Result.performance.avg_duration)

\* three records with a duration, and a mean that rounding has put above
\* the maximum
C12_Witness ==
    /\ Analyzed
    /\ Cardinality(WithDuration) = 3
    /\ f64_lt(Result.performance.max_duration, Result.performance.avg_duration)

-----------------------------------------------------------------------------
(* C13 *)

WithTimestamp == {i \in 1..Len(a_df[1]) : a_df[1][i].timestamp # None}

\* C13: summary.time_range is "<first> to <last>", the timestamps of the
\* first and of the last record in file order that have one (the same
\* string twice when only one record has a timestamp), and it is "Unknown"
\* exactly when no record has a timestamp.
C13_TimeRange ==
    Analyzed =>
        /\ WithTimestamp # {} =>
               Result.summary.time_range =
                   a_df[1][SetMin(WithTimestamp)].timestamp[1] \o " to "
                       \o a_df[1][SetMax(WithTimestamp)].timestamp[1]
        /\ Result.summary.time_range = "Unknown" <=> WithTimestamp = {}

\* a record without a timestamp, then the record of January 2nd, then the
\* record of January 1st: file order is not chronological order
C13_Witness ==
    /\ Analyzed
    /\ Len(a_df[1]) = 3
    /\ a_df[1][1].timestamp = None
    /\ a_df[1][2].timestamp = Some("01/02/2024  10:00:00")
    /\ a_df[1][3].timestamp = Some("2024-01-01 10:00:00")
    /\ Result.summary.time_range = "01/02/2024  10:00:00 to 2024-01-01 10:00:00"

-----------------------------------------------------------------------------
(* C14 *)

\* for each line that occurs: whether a duration pattern matches it and, for
\* the first that does, the number and the unit it matched
Measured == [line \in Corpus |->
                LET i == FirstMatching(PATTERNS.duration, TRUE, line)
                IN  IF i = 0 THEN None
                    ELSE Some([number |-> Group(PATTERNS.duration[i], TRUE, line, 1),
                               unit   |-> str_lower(Group(PATTERNS.duration[i], TRUE, line, 2))])]

-----------------------------------------------------------------------------
(* C15 *)

\* the loads of the file that was already the current one (a refresh, or the
\* same file selected again) that ran alone and have ended
Reloads ==
    {t \in 1..Len(threads) :
        /\ h_attempts[t].solo
        /\ h_attempts[t].outcome # "running"
        /\ h_attempts[t].before_filepath = Some(threads[t].filepath)}

\* C15 (as claimed): no file ever changes here, so when a refresh that ran
\* alone has ended, and no later load has started, the records and the
\* analysis held are what they were when it started, whatever loads came
\* before.
C15_RefreshKeepsHeldResult ==
    \A t \in Reloads :
        t = Len(threads) /\ h_attempts[t].before_df # None =>
            /\ current_df = h_attempts[t].before_df
            /\ current_analysis = h_attempts[t].before_analysis

\* what does hold: a refresh that follows a load of the same file that ran
\* alone leaves the held result as that load left it
C15_SecondRunIsIdentical ==
    \A t \in Reloads :
        /\ t = Len(threads)
        /\ t > 1
        /\ h_attempts[t - 1].solo
        /\ threads[t - 1].filepath = threads[t].filepath
        => /\ current_df = h_attempts[t].before_df
           /\ current_analysis = h_attempts[t].before_analysis

\* a refresh has replaced the held records of one file by those of another
C15_Witness ==
    /\ Len(threads) = 1
    /\ Reloads = {1}
    /\ h_attempts[1].outcome = "success"
    /\ h_attempts[1].before_df # None
    /\ h_attempts[1].before_df # current_df

-----------------------------------------------------------------------------
(* C16 *)

\* C16: when parse_log_file and analyze run side by side for two different
\* files, under every interleaving each invocation returns the records and
\* the result (or the failure) it returns when it runs alone.
C16_InvocationsIndependent ==
    \A k \in 1..Len(calls) :
        LET alone == parse_log_file(FileSystem[calls[k].filepath])
        IN  /\ calls[k].parsed # None => calls[k].parsed = Some(alone)
            /\ calls[k].result # None => calls[k].result = Some(analyze(alone.returned[1]))
            /\ calls[k].pc = "done" =>
                   calls[k].parsed # None /\ (alone.raised = None => calls[k].result # None)

\* the invocation for b.log has run from start to end, with records and a
\* result, while the invocation for a.log is in the middle of its loop
C16_Witness ==
    /\ Len(calls) = 2
    /\ calls[1].filepath = "/logs/a.log" /\ calls[2].filepath = "/logs/b.log"
    /\ calls[1].pc = "loop" /\ Len(calls[1].entries) = 1 /\ Len(calls[1].lines) = 2
    /\ calls[2].pc = "done"
    /\ calls[2].parsed[1].returned # None /\ Len(calls[2].parsed[1].returned[1]) = 1
    /\ calls[2].result[1].raised = None

-----------------------------------------------------------------------------
(* C17 *)

Fields == {"timestamp", "duration", "job_name", "rows_processed"}

\* for each line that occurs and each field: the patterns of the field that
\* match the line, in catalog order, each with the position where its match
\* starts and the text of its first group
Catalog == [line \in Corpus |-> [f \in Fields |->
               LET found == [i \in 1..Len(PATTERNS[f]) |->
                                re_search(PATTERNS[f][i].items, f # "timestamp", line)]
                   hits == {i \in 1..Len(PATTERNS[f]) : found[i] # <<>>}
               IN  [hits  |-> hits,
                    start |-> [i \in hits |-> found[i][1]],
                    text  |-> [i \in hits |->
                                  group(line, found[i], PATTERNS[f][i].groups[1][1],
                                        PATTERNS[f][i].groups[1][2])]]]]

\* C17: each of timestamp, duration, job_name and rows_processed is absent
\* exactly when no pattern of the field matches the line, and otherwise
\* comes from the first pattern in catalog order that matches anywhere in
\* the line, wherever the other patterns match: "elapsed: 5s then
\* duration: 3s" gives duration 3 and "workflow: W before job: J" gives
\* job_name J.
C17_FirstPatternInCatalogOrder ==
    \A k \in 1..Len(ParsedRows) :
        LET line == p_src.lines[k]
            row == ParsedRows[k]
            first(f) == Catalog[line][f].text[SetMin(Catalog[line][f].hits)]
        IN  /\ \A f \in Fields : row[f] = None <=> Catalog[line][f].hits = {}
            /\ row.timestamp # None => row.timestamp[1] = strip(first("timestamp"), {"[", "]"})
            /\ row.job_name # None => row.job_name[1] = first("job_name")
            /\ row.rows_processed # None => row.rows_processed[1] = int(first("rows_processed"))
            /\ row.duration # None =>
                   row.duration[1] \in {float(first("duration")), float(first("duration")) \div 1000}
            /\ line = "elapsed: 5s then duration: 3s" => row.duration = Some(float("3"))
            /\ line = "workflow: W before job: J" => row.job_name = Some("J")

\* lines in which a later pattern of the catalog matches before the first
\* one does
Overtaken(line, f) ==
    \E i, j \in Catalog[line][f].hits :
        i < j /\ Catalog[line][f].start[j] < Catalog[line][f].start[i]

C17_Witness ==
    /\ Len(ParsedRows) = 2
    /\ \/ /\ p_src.lines = <<"elapsed: 5s then duration: 3s", "workflow: W before job: J">>
          /\ Overtaken(p_src.lines[1], "duration") /\ Overtaken(p_src.lines[2], "job_name")
          /\ ParsedRows[1].duration = Some(float("3"))
          /\ ParsedRows[2].job_name = Some("J")
       \/ /\ p_src.lines = <<"processed 20 records, 7 rows inserted",
                              "01/02/2024 10:00:00 restart of 2024-01-01 09:00:00">>
          /\ Overtaken(p_src.lines[1], "rows_processed") /\ Overtaken(p_src.lines[2], "timestamp")
          /\ ParsedRows[1].rows_processed = Some(7)
          /\ ParsedRows[2].timestamp = Some("2024-01-01 09:00:00")

-----------------------------------------------------------------------------
(* C18 *)

\* the records, errors or not, whose duration is more than 60 seconds
OverSixty == {i \in WithDuration : a_df[1][i].duration[1] > 60 * SCALE}

Bottlenecks ==
    {j \in 1..Len(Result.root_causes) : StartsWith(Result.root_causes[j], "Performance Bottlenecks: ")}

\* C18: the "Performance Bottlenecks" suggestion is listed exactly when some
\* record of the whole collection, error or not, has a duration above 60
\* seconds, and it reports the number of these records; a duration of
\* exactly 60 or a missing one does not count.
C18_PerformanceBottlenecks ==
    Analyzed =>
        /\ Bottlenecks # {} <=> OverSixty # {}
        /\ \A j \in Bottlenecks :
               Result.root_causes[j] = "Performance Bottlenecks: "
                   \o str(Cardinality(OverSixty)) \o " slow operations (>60s)"

\* no error record; records of exactly 60 seconds, of 90 seconds and with
\* no duration; the one suggestion counts the record of 90 seconds only
C18_Witness ==
    /\ Analyzed
    /\ \A i \in 1..Len(a_df[1]) : ~a_df[1][i].is_error
    /\ \E i \in WithDuration : a_df[1][i].duration[1] = 60 * SCALE
    /\ \E i \in 1..Len(a_df[1]) : i \notin WithDuration
    /\ Cardinality(OverSixty) = 1
    /\ Result.root_causes = <<"Performance Bottlenecks: 1 slow operations (>60s)">>

-----------------------------------------------------------------------------
(* C19 *)

\* C19 (as claimed): under any interleaving of load and refresh workers,
\* once all of them have finished successfully the analysis held is the
\* analysis of the records held.
C19_HeldPairConsistent ==
    (/\ Len(threads) > 0
     /\ \A t \in 1..Len(threads) : h_attempts[t].outcome = "success")
        => current_analysis = analyze(current_df[1]).returned

\* two loads of different files have both finished successfully, and the
\* analysis held counts another number of lines than the records held
C19_Witness ==
    /\ Len(threads) = 2
    /\ threads[1].filepath # threads[2].filepath
    /\ \A t \in 1..Len(threads) : h_attempts[t].outcome = "success"
    /\ current_analysis[1].summary.total_lines # Len(current_df[1])

-----------------------------------------------------------------------------
(* C20 *)

\* C20 (as claimed): whenever no load is in progress and records are held,
\* current_filepath names the file the records held were parsed from.
C20_FilepathNamesHeldData ==
    (Live = {} /\ current_df # None) =>
        /\ current_filepath # None
        /\ current_df = parse_log_file(FileSystem[current_filepath[1]]).returned

\* a.log was selected and then b.log; worker 2 finished first, both
\* successfully, and the records of a.log are held under the name of b.log
C20_Witness ==
    /\ Len(threads) = 2 /\ Live = {}
    /\ threads[1].filepath = "/logs/a.log" /\ threads[2].filepath = "/logs/b.log"
    /\ \A t \in 1..Len(threads) : h_attempts[t].outcome = "success"
    /\ after_queue = <<>>
    /\ Held("/logs/a.log", "/logs/b.log")

\* a.log was loaded, then the load of a file that cannot be read failed: the
\* records of a.log are held under the name of the other file
C20_FailedLoadWitness ==
    /\ Len(threads) = 2 /\ Live = {}
    /\ h_attempts[1].solo /\ h_attempts[1].outcome = "success"
    /\ h_attempts[2].solo /\ h_attempts[2].outcome = "failure"
    /\ current_filepath = Some("/logs/missing.log")
    /\ current_df = parse_log_file(FileSystem["/logs/a.log"]).returned

-----------------------------------------------------------------------------
(* C23 *)

\* rows are records of the collection, taken in file order
InFileOrder(rows) ==
    /\ \A j \in 1..Len(rows) :
           /\ rows[j].line_number \in 1..Len(a_df[1])
           /\ rows[j] = a_df[1][rows[j].line_number]
    /\ \A j \in 1..(Len(rows) - 1) : rows[j].line_number < rows[j + 1].line_number

\* the occurrences of the first k jobs, added up
RECURSIVE OccurrencesUpTo(_)
OccurrencesUpTo(k) ==
    IF k = 0 THEN 0 ELSE OccurrencesUpTo(k - 1) + Result.jobs[k].occurrences

-----------------------------------------------------------------------------
(* C22 *)

\* C22: in the job table shown, the average duration of a job reads "N/A"
\* exactly when no record of the job carries a duration, and every other
\* job, one whose durations are 0 included, shows its average with two
\* decimals.
C22_NotAvailableIffNoDuration ==
    (Analyzed /\ summary_text # None) =>
        \A k \in 1..Len(summary_text[1]) :
            /\ summary_text[1][k].job_name = Result.jobs[k].job_name
            /\ (summary_text[1][k].avg_dur = "N/A")
                   <=> (JobTimed(summary_text[1][k].job_name) = {})
            /\ JobTimed(summary_text[1][k].job_name) # {} =>
                   summary_text[1][k].avg_dur
                       = format_2f(Result.jobs[k].avg_duration[1]) \o "s"

\* what the table shows instead: "N/A" when the job has no average or its
\* average is 0.0
C22_AsShown ==
    (Analyzed /\ summary_text # None) =>
        \A k \in 1..Len(summary_text[1]) :
            (summary_text[1][k].avg_dur = "N/A")
                <=> \/ Result.jobs[k].avg_duration = None
                    \/ is_zero(Result.jobs[k].avg_duration[1])

-----------------------------------------------------------------------------
(* C21 *)

\* the status bar announces work under way
Busy == StartsWith(status_bar, "Loading ") \/ status_bar = "Refreshing analysis..."

\* the messages a worker can fail with
FailureMessages ==
    {parse_log_file(FileSystem[path]).raised[1].msg :
         path \in {q \in Paths : parse_log_file(FileSystem[q]).raised # None}}
        \cup {KeyError("is_error").raised[1].msg}

\* the error dialog for a failure with this message
ErrorDialog(msg) ==
    Some([kind |-> "showerror", title |-> "Error",
          message |-> "Failed to parse log file:\n" \o msg])

\* every worker started comes to its end
C21_AttemptsEnd ==
    \A t \in 1..MaxLoads : (Len(threads) >= t) ~> At(t, "done")

\* a worker that has stored its analysis gets the status bar to "Loaded: ..."
C21_SuccessShowsLoaded ==
    \A t \in 1..MaxLoads : At(t, "after") ~> StartsWith(status_bar, "Loaded: ")

\* a worker that has failed gets the dialog with its failure message shown
C21_FailureShowsDialog ==
    \A t \in 1..MaxLoads : \A msg \in FailureMessages :
        (At(t, "except") /\ threads[t].e[1].msg = msg) ~> (messagebox = ErrorDialog(msg))

\* a worker that has failed gets the status bar back to "Ready"
C21_FailureReturnsToReady ==
    \A t \in 1..MaxLoads : At(t, "except") ~> (status_bar = "Ready")

\* the status bar does not announce work under way for ever
C21_NeverStuck == Busy ~> ~Busy

\* C21: every load or refresh started comes to an end, and on the UI thread
\* a successful one gets the status bar to "Loaded: ...", a failed one gets
\* an error dialog with its failure message shown and the status bar back to
\* "Ready"; the status bar never reads "Loading ..." or "Refreshing
\* analysis..." for ever.
C21_EveryAttemptIsDelivered ==
    /\ C21_AttemptsEnd
    /\ C21_SuccessShowsLoaded
    /\ C21_FailureShowsDialog
    /\ C21_FailureReturnsToReady
    /\ C21_NeverStuck

====
